---- MODULE Spec2Model ----
(***************************************************************************)
(* minigit (src/minigit.py): a content-addressed object store, a staging   *)
(* index, one branch pointer, and the commands that act on them.           *)
(*                                                                         *)
(* Text and bytes are sequences of code points (ASCII only, so that        *)
(* str.encode() / bytes.decode() keep the code points).  A file that does  *)
(* not exist is <<>>, a file that exists is <<contents>>.                  *)
(***************************************************************************)
EXTENDS Integers, Sequences, FiniteSets, Bags, TLC

\* ------------------------------------------------------------------------
\* Bounds of the model
\* ------------------------------------------------------------------------
MaxCommits == 2
MaxMsgLen == 2
MaxTorn == 1

\* ------------------------------------------------------------------------
\* Code points and string literals of the source
\* ------------------------------------------------------------------------
NUL == 0
LF == 10
CR == 13
SP == 32
ShaRawLen == 20

S_tree == <<116, 114, 101, 101, 32>>                        \* "tree "
S_parent == <<112, 97, 114, 101, 110, 116, 32>>             \* "parent "
S_author == <<97, 117, 116, 104, 111, 114, 32>>             \* "author "
S_committer == <<99, 111, 109, 109, 105, 116, 116, 101, 114, 32>>  \* "committer "
S_files == <<91, 102, 105, 108, 101, 115, 93>>              \* "[files]"
S_blob == <<98, 108, 111, 98>>                              \* "blob"
S_treeFmt == <<116, 114, 101, 101>>                         \* "tree"
S_commit == <<99, 111, 109, 109, 105, 116>>                 \* "commit"
S_mode == <<49, 48, 48, 54, 52, 52>>                        \* "100644"
S_none == <<78, 111, 110, 101>>                             \* "None"

\* Characters str.splitlines() breaks a line at (ASCII part of the table).
LineBreaks == {10, 11, 12, 13, 28, 29, 30}
\* Characters str.strip() and str.split() treat as whitespace (ASCII part).
Whitespace == {9, 10, 11, 12, 13, 28, 29, 30, 31, 32}

\* ------------------------------------------------------------------------
\* Python's sequence operations, on 0-based positions as in the source
\* ------------------------------------------------------------------------
Min(a, b) == IF a < b THEN a ELSE b
Max(a, b) == IF a > b THEN a ELSE b

\* s[lo:hi] with Python's clamping and negative positions.
Clamp(i, n) == IF i < 0 THEN Max(i + n, 0) ELSE Min(i, n)
Between(s, l, h) == IF l >= h THEN <<>> ELSE SubSeq(s, l + 1, h)
PySlice(s, lo, hi) == Between(s, Clamp(lo, Len(s)), Clamp(hi, Len(s)))

\* s.startswith(p)
StartsWith(s, p) == Len(s) >= Len(p) /\ SubSeq(s, 1, Len(p)) = p

\* s.find(sub, start): the lowest 0-based position >= start, or -1 (a
\* negative start counts from the end).
At(s, sub, k) == SubSeq(s, k + 1, k + Len(sub)) = sub
FirstAt(s, sub, ks) ==
    IF \E k \in ks : At(s, sub, k)
    THEN CHOOSE k \in ks : At(s, sub, k) /\ \A m \in ks : m < k => ~At(s, sub, m)
    ELSE -1
PyFind(s, sub, start) ==
    FirstAt(s, sub, (IF start < 0 THEN Max(start + Len(s), 0) ELSE start)..(Len(s) - Len(sub)))

\* sub in s
Contains(s, sub) == PyFind(s, sub, 0) >= 0

\* s.split(sep, 1)[1], used only when sep occurs in s.
AfterFirst(s, sep) == SubSeq(s, PyFind(s, sep, 0) + Len(sep) + 1, Len(s))

\* The k-th smallest member of a set of positions.
NthOf(S, k) == CHOOSE x \in S : Cardinality({y \in S : y < x}) = k - 1

\* s.strip()
Inked(s) == {i \in 1..Len(s) : s[i] \notin Whitespace}
Lowest(S) == CHOOSE i \in S : \A j \in S : i <= j
Highest(S) == CHOOSE i \in S : \A j \in S : j <= i
Span(s, S) == IF S = {} THEN <<>> ELSE SubSeq(s, Lowest(S), Highest(S))
Strip(s) == Span(s, Inked(s))

\* The pieces of s between the separators that start at the positions seps,
\* sepEnd[b] being the last position of the separator that starts at b; an
\* empty piece after the last separator is not produced.
PieceFrom(seps, sepEnd, j) == IF j = 1 THEN 1 ELSE sepEnd[NthOf(seps, j - 1)] + 1
LastPiece(s, last) == IF last > Len(s) THEN <<>> ELSE <<SubSeq(s, last, Len(s))>>
Pieces(s, seps, sepEnd) ==
    [j \in 1..Cardinality(seps) |-> SubSeq(s, PieceFrom(seps, sepEnd, j), NthOf(seps, j) - 1)]
    \o LastPiece(s, PieceFrom(seps, sepEnd, Cardinality(seps) + 1))

\* s.splitlines(): a line ends at a line-break character, "\r\n" counts as
\* one break, and no empty last line is produced for a trailing break.
CrLf(s, i) == s[i] = CR /\ i < Len(s) /\ s[i + 1] = LF
SplitLines(s) ==
    Pieces(s, {i \in 1..Len(s) : s[i] \in LineBreaks /\ ~(i > 1 /\ CrLf(s, i - 1))},
           [b \in 1..Len(s) |-> IF CrLf(s, b) THEN b + 1 ELSE b])

\* Iterating a text file: lines end at "\n" (kept out of the line here, the
\* callers strip it anyway); the last line may lack it.
FileLines(s) == Pieces(s, {i \in 1..Len(s) : s[i] = LF}, [b \in 1..Len(s) |-> b])

\* s.split(): the maximal runs of non-whitespace.
WordStarts(s) == {i \in 1..Len(s) : s[i] \notin Whitespace /\ (i = 1 \/ s[i - 1] \in Whitespace)}
WordFrom(s, i) ==
    SubSeq(s, i, CHOOSE j \in i..Len(s) :
                    /\ \A m \in i..j : s[m] \notin Whitespace
                    /\ (j = Len(s) \/ s[j + 1] \in Whitespace))
Words(s, starts) == [k \in 1..Cardinality(starts) |-> WordFrom(s, NthOf(starts, k))]
SplitWs(s) == Words(s, WordStarts(s))

\* "\n".join(lines)
RECURSIVE JoinLines(_)
JoinLines(lines) ==
    IF lines = <<>> THEN <<>>
    ELSE IF Len(lines) = 1 THEN lines[1]
    ELSE lines[1] \o <<LF>> \o JoinLines(Tail(lines))

\* Python's ordering of str: by code point, a proper prefix first.
LessAt(a, b, diff) == IF diff = {} THEN Len(a) < Len(b) ELSE a[Lowest(diff)] < b[Lowest(diff)]
StrLess(a, b) == LessAt(a, b, {i \in 1..Min(Len(a), Len(b)) : a[i] # b[i]})

\* sorted(set of str)
RECURSIVE SortedSeq(_)
Least(S) == CHOOSE x \in S : \A y \in S \ {x} : StrLess(x, y)
SortedSeq(S) ==
    IF S = {} THEN <<>>
    ELSE LET rest(m) == <<m>> \o SortedSeq(S \ {m}) IN rest(Least(S))

Range(f) == {f[i] : i \in DOMAIN f}

\* str(n) for n >= 0
RECURSIVE Decimal(_)
Decimal(n) == IF n < 10 THEN <<48 + n>> ELSE Decimal(n \div 10) \o <<48 + (n % 10)>>

\* One hex digit <-> its character.
HexChar(d) == IF d < 10 THEN 48 + d ELSE 87 + d
HexVal(c) == IF c >= 97 THEN c - 87 ELSE c - 48

\* bytes.fromhex(sha) and bytes.hex()
FromHex(h) == [i \in 1..(Len(h) \div 2) |-> 16 * HexVal(h[2 * i - 1]) + HexVal(h[2 * i])]
ToHex(b) ==
    [i \in 1..(2 * Len(b)) |->
        IF i % 2 = 1 THEN HexChar(b[(i + 1) \div 2] \div 16) ELSE HexChar(b[i \div 2] % 16)]

\* ------------------------------------------------------------------------
\* Optional values: None is <<>>, a value v is <<v>>
\* ------------------------------------------------------------------------
None == <<>>
Some(v) == <<v>>
IsNone(o) == o = <<>>
Val(o) == o[1]
\* f"{v}" of an optional string
Fmt(o) == IF IsNone(o) THEN S_none ELSE Val(o)
\* Python truthiness of an optional string
Truthy(o) == ~IsNone(o) /\ Val(o) # <<>>

\* ------------------------------------------------------------------------
\* GitBlob
\* ------------------------------------------------------------------------
GitBlob_serialize(data) == data
GitBlob_deserialize(data) == data

\* ------------------------------------------------------------------------
\* GitCommit: [tree, parent, author, message], each optional
\* ------------------------------------------------------------------------
GitCommit(tree, parent, author, message) ==
    [tree |-> tree, parent |-> parent, author |-> author, message |-> message]

\* Mutant: the parent line is left out.
GitCommit_serialize_noParent(c) ==
    JoinLines(<<S_tree \o Fmt(c.tree),
                S_author \o Fmt(c.author),
                S_committer \o Fmt(c.author),
                <<>>,
                Fmt(c.message)>>)

GitCommit_serialize(c) ==
    JoinLines(<<S_tree \o Fmt(c.tree)>>
              \o (IF Truthy(c.parent) THEN <<S_parent \o Val(c.parent)>> ELSE <<>>)
              \o <<S_author \o Fmt(c.author),
                   S_committer \o Fmt(c.author),
                   <<>>,
                   Fmt(c.message)>>)

\* The while loop of deserialize, from line i (1-based) with the fields read
\* so far; a message of None stands for the list the source leaves there
\* when no blank line is found.
RECURSIVE CommitLoop(_, _, _)
CommitLoop(lines, i, c) ==
    IF i > Len(lines) THEN c
    ELSE IF StartsWith(lines[i], S_tree)
         THEN CommitLoop(lines, i + 1, [c EXCEPT !.tree = Some(PySlice(lines[i], 5, Len(lines[i])))])
    ELSE IF StartsWith(lines[i], S_parent)
         THEN CommitLoop(lines, i + 1, [c EXCEPT !.parent = Some(PySlice(lines[i], 7, Len(lines[i])))])
    ELSE IF StartsWith(lines[i], S_author)
         THEN CommitLoop(lines, i + 1, [c EXCEPT !.author = Some(PySlice(lines[i], 7, Len(lines[i])))])
    ELSE IF lines[i] = <<>>
         THEN [c EXCEPT !.message = Some(JoinLines(SubSeq(lines, i + 1, Len(lines))))]
    ELSE CommitLoop(lines, i + 1, c)

GitCommit_deserialize(data) ==
    CommitLoop(SplitLines(data), 1, GitCommit(None, None, None, None))

\* ------------------------------------------------------------------------
\* GitTree: a sequence of entries <<mode, path, sha>>
\* ------------------------------------------------------------------------
RECURSIVE GitTree_serialize(_)
GitTree_serialize(entries) ==
    IF entries = <<>> THEN <<>>
    ELSE LET e == Head(entries)
         IN  e[1] \o <<SP>> \o e[2] \o <<NUL>> \o FromHex(e[3])
             \o GitTree_serialize(Tail(entries))

\* The while loop of deserialize at position i.  err is "" when the loop
\* ends, "UnicodeDecodeError" when the header holds a non-ASCII byte,
\* "ValueError" when the header holds no space, and "loop" when the loop
\* comes back to a position it was at before (it then never ends).
RECURSIVE TreeLoop(_, _, _, _)
TreeLoop(data, i, entries, seen) ==
    IF i >= Len(data) THEN [err |-> "", entries |-> entries]
    ELSE IF i \in seen THEN [err |-> "loop", entries |-> entries]
    ELSE LET split(j, mode_path, sp, sha_bytes) ==
                 IF \E k \in 1..Len(mode_path) : mode_path[k] >= 128
                     THEN [err |-> "UnicodeDecodeError", entries |-> entries]
                 ELSE IF sp < 0 THEN [err |-> "ValueError", entries |-> entries]
                 ELSE TreeLoop(data, j + 1 + ShaRawLen,
                               Append(entries, <<PySlice(mode_path, 0, sp),
                                                 PySlice(mode_path, sp + 1, Len(mode_path)),
                                                 ToHex(sha_bytes)>>),
                               seen \cup {i})
             header(j, mode_path) ==
                 split(j, mode_path, PyFind(mode_path, <<SP>>, 0),
                       PySlice(data, j + 1, j + 1 + ShaRawLen))
             entry(j) == header(j, PySlice(data, i, j))
         IN  entry(PyFind(data, <<NUL>>, i))

GitTree_deserialize(data) == TreeLoop(data, 0, <<>>, {})

\* ------------------------------------------------------------------------
\* HashCodec and Compressor
\* ------------------------------------------------------------------------
\* hashlib.sha1(full).hexdigest(): 40 hex characters that depend on every
\* byte of the frame and on its position.  The digest is three position-
\* weighted sums of the bytes, eight hex digits each, and the length of
\* the frame; StoreSound below checks that no two frames met in a run
\* share a digest, which is what the program assumes of SHA-1.
WeightedSum(full, m, p) ==
    BagCardinality([i \in 1..Len(full) |->
                       1 + (((full[i] + 1) * ((i * i * m + i * 7 + 1) % p)) % p)])

RECURSIVE HexDigits(_, _)
HexDigits(n, k) ==
    IF k = 0 THEN <<>> ELSE HexDigits(n \div 16, k - 1) \o <<HexChar(n % 16)>>

Sha1Hex(full) ==
    HexDigits(WeightedSum(full, 31, 65521), 8)
    \o HexDigits(WeightedSum(full, 37, 65519), 8)
    \o HexDigits(WeightedSum(full, 41, 65497), 8)
    \o HexDigits(Len(full), 2 * ShaRawLen - 24)

\* zlib.compress / zlib.decompress: lossless; the compressed form starts
\* with the two zlib header bytes, and bytes without them do not decompress.
ZlibHeader == <<120, 156>>
Compress(full) == ZlibHeader \o full
CanDecompress(z) == StartsWith(z, ZlibHeader)
Decompress(z) == SubSeq(z, Len(ZlibHeader) + 1, Len(z))

\* ------------------------------------------------------------------------
\* ObjectStore: objs maps the path <<2 hex, 38 hex>> of an object under
\* .minigit/objects to the bytes of the file there
\* ------------------------------------------------------------------------
\* Mutant: the file name under the two-character directory is left out.
ObjPath_dirOnly(sha) == <<PySlice(sha, 0, 2), <<>>>>

ObjPath(sha) == <<PySlice(sha, 0, 2), PySlice(sha, 2, Len(sha))>>

Frame(fmt, data) == fmt \o <<SP>> \o Decimal(Len(data)) \o <<NUL>> \o data

\* object_write: the hash returned and the store afterwards.
ObjectWrite(objs, data, fmt) ==
    LET store(full, sha, obj_path) ==
            [sha |-> sha,
             objs |-> IF obj_path \in DOMAIN objs THEN objs
                      ELSE [q \in DOMAIN objs \cup {obj_path} |->
                               IF q = obj_path THEN Compress(full) ELSE objs[q]]]
        hashed(full, sha) == store(full, sha, ObjPath(sha))
        framed(full) == hashed(full, Sha1Hex(full))
    IN  framed(Frame(fmt, data))

IsDecimal(t) == t # <<>> /\ \A i \in 1..Len(t) : t[i] \in 48..57

\* object_read: err is "" and kind, data name the object read (data is the
\* payload, which the caller deserializes for its kind), or err names the
\* exception raised; err is "loop" when the tree payload keeps
\* GitTree.deserialize in its loop, so that object_read does not return.
ObjectRead(objs, sha) ==
    LET bad(e) == [err |-> e, kind |-> <<>>, data |-> <<>>]
        tree(data, e) ==
            IF e = "" THEN [err |-> "", kind |-> S_treeFmt, data |-> data]
            ELSE IF e = "loop" THEN bad("loop")
            ELSE bad("tree unreadable")
        parsed(fmt, size, data) ==
            IF ~IsDecimal(Strip(size)) THEN bad("ValueError")
            ELSE IF fmt \notin {S_blob, S_commit, S_treeFmt} THEN bad("Unknown object type")
            ELSE IF fmt = S_treeFmt THEN tree(data, GitTree_deserialize(data).err)
            ELSE [err |-> "", kind |-> fmt, data |-> data]
        split(full, x, y) ==
            parsed(PySlice(full, 0, x), PySlice(full, x + 1, y), PySlice(full, y + 1, Len(full)))
        header(full, x) == split(full, x, PyFind(full, <<NUL>>, x))
        unframe(full) == header(full, PyFind(full, <<SP>>, 0))
        open(obj_path) ==
            IF obj_path \notin DOMAIN objs THEN bad("not found")
            ELSE IF ~CanDecompress(objs[obj_path]) THEN bad("zlib.error")
            ELSE unframe(Decompress(objs[obj_path]))
    IN  open(ObjPath(sha))

\* The commit object_read returns for sha (the callers read only commits
\* this way and use its fields at once).
ReadCommit(objs, sha) == GitCommit_deserialize(ObjectRead(objs, sha).data)

\* ------------------------------------------------------------------------
\* Python dicts, in insertion order: sequences of <<key, value>>
\* ------------------------------------------------------------------------
DictKeys(d) == {d[i][1] : i \in DOMAIN d}
DictGet(d, k) == d[CHOOSE i \in DOMAIN d : d[i][1] = k][2]
DictSet(d, k, v) ==
    IF k \in DictKeys(d) THEN [i \in DOMAIN d |-> IF d[i][1] = k THEN <<k, v>> ELSE d[i]]
    ELSE Append(d, <<k, v>>)
DictDel(d, k) == SelectSeq(d, LAMBDA e : e[1] # k)

\* ------------------------------------------------------------------------
\* StagingIndex: the file .minigit/index
\* ------------------------------------------------------------------------
RECURSIVE ReadIndexLines(_, _, _)
ReadIndexLines(lines, i, index) ==
    IF i > Len(lines) THEN index
    ELSE LET entry(parts) == DictSet(index, parts[1], parts[2])
         IN  ReadIndexLines(lines, i + 1, entry(SplitWs(Strip(lines[i]))))

read_index(file) ==
    IF IsNone(file) THEN <<>> ELSE ReadIndexLines(FileLines(Val(file)), 1, <<>>)

RECURSIVE write_index(_)
write_index(index) ==
    IF index = <<>> THEN <<>>
    ELSE Head(index)[1] \o <<SP>> \o Head(index)[2] \o <<LF>> \o write_index(Tail(index))

\* ------------------------------------------------------------------------
\* RepositoryState: the file .minigit/refs/heads/master
\* ------------------------------------------------------------------------
\* f.read().strip() or None, None also when the file does not exist.
HeadSha(ref) ==
    LET orNone(sha) == IF sha = <<>> THEN None ELSE Some(sha)
    IN  IF IsNone(ref) THEN None ELSE orNone(Strip(Val(ref)))

\* The paths listed after the first "[files]" of a commit message, in order.
TrackedLines(msg) ==
    IF ~Contains(msg, S_files) THEN <<>>
    ELSE LET stripped(kept) == [i \in DOMAIN kept |-> Strip(kept[i])]
         IN  stripped(SelectSeq(SplitLines(Strip(AfterFirst(msg, S_files))),
                                LAMBDA l : Strip(l) # <<>>))

\* The tracked paths the head commit records (empty without a head commit).
HeadTrackedLines(objs, ref) ==
    LET of(head) == IF IsNone(head) THEN <<>>
                    ELSE TrackedLines(Fmt(ReadCommit(objs, Val(head)).message))
    IN  of(HeadSha(ref))

\* Whether reading the head commit raises.
HeadUnreadable(objs, ref) ==
    LET of(head) == ~IsNone(head) /\ ObjectRead(objs, Val(head)).err # ""
    IN  of(HeadSha(ref))

\* ------------------------------------------------------------------------
\* Inputs of the model
\* ------------------------------------------------------------------------
PathA == <<97>>                       \* "a"
PathB == <<98>>                       \* "b"
Dot == <<46>>                         \* "."
Paths == {PathA, PathB}
User == <<117>>                       \* $USER
Timestamps == {<<49>>}                \* str(datetime.now())
Messages == {None, Some(S_files)}     \* no -m, -m "[files]"
Edits == {<<PathA, <<121>>>>, <<PathB, <<120>>>>}  \* a := "y", b := "x"
AddArgs == {<<PathA>>, <<PathB>>, <<Dot>>, <<PathA, PathB>>}
RmArgs == {<<PathA>>, <<PathB>>, <<PathA, PathB>>}
MissingSha == [i \in 1..(2 * ShaRawLen) |-> 102]   \* "ff...f", never written

S_commitAt == <<67, 111, 109, 109, 105, 116, 32, 97, 116, 32>>      \* "Commit at "
S_atHost == <<64, 108, 111, 99, 97, 108, 104, 111, 115, 116, 62>>   \* "@localhost>"
S_trailer == <<LF, LF>> \o S_files \o <<LF>>                        \* "\n\n[files]\n"

\* ------------------------------------------------------------------------
\* State
\* ------------------------------------------------------------------------
VARIABLES
    worktree,    \* path -> None or Some(contents): the files beside .minigit
    indexFile,   \* None or Some(bytes): .minigit/index
    headRef,     \* None or Some(bytes): .minigit/refs/heads/master
    objects,     \* object path -> bytes: .minigit/objects
    out,         \* the last command, its arguments, what it printed, and
                 \* (history) the staging index it found; for a commit that
                 \* stopped: sha and typ are the hashes of its commit and tree,
                 \* err is where it stopped
    made,        \* history: <<commit hash, head before, paths written to the
                 \* trailer>> of each commit made
    codec        \* the serializer specifications' input and output

vars == <<worktree, indexFile, headRef, objects, out, made, codec>>

Line(tag, s1, s2) == <<tag, s1, s2>>
Out(cmd, paths, msg, sha, typ, err, printed) ==
    [cmd |-> cmd, paths |-> paths, msg |-> msg, sha |-> sha, typ |-> typ,
     err |-> err, printed |-> printed, indexBefore |-> read_index(indexFile)]

IsFile(wt, p) == p \in DOMAIN wt /\ ~IsNone(wt[p])
\* os.walk over the work tree, .minigit left out: the files there are.
AllFiles(wt) == {p \in DOMAIN wt : IsFile(wt, p)}

\* ------------------------------------------------------------------------
\* cmd_add
\* ------------------------------------------------------------------------
\* What add_path does with a file it adds: w is what object_write returns.
Added(acc, relpath, w) ==
    [index |-> DictSet(acc.index, relpath, w.sha),
     objs |-> w.objs,
     printed |-> Append(acc.printed, Line("Added", relpath, w.sha))]

\* Mutant: a tracked path is added again.
AddFile_noSkip(acc, tracked, wt, relpath) ==
    Added(acc, relpath, ObjectWrite(acc.objs, GitBlob_serialize(Val(wt[relpath])), S_blob))

\* add_path on a regular file: acc is [index, objs, printed].
AddFile(acc, tracked, wt, relpath) ==
    IF relpath \in tracked THEN acc
    ELSE Added(acc, relpath, ObjectWrite(acc.objs, GitBlob_serialize(Val(wt[relpath])), S_blob))

\* add_path on one argument: a directory is walked (walk is the order in
\* which os.walk yields the files), a file is added, anything else skipped.
RECURSIVE AddFiles(_, _, _, _)
AddFiles(acc, tracked, wt, files) ==
    IF files = <<>> THEN acc
    ELSE AddFiles(AddFile(acc, tracked, wt, Head(files)), tracked, wt, Tail(files))

AddPath(acc, tracked, wt, path, walk) ==
    IF path = Dot THEN AddFiles(acc, tracked, wt, walk)
    ELSE IF IsFile(wt, path) THEN AddFile(acc, tracked, wt, path)
    ELSE acc

RECURSIVE AddPaths(_, _, _, _, _)
AddPaths(acc, tracked, wt, paths, walk) ==
    IF paths = <<>> THEN acc
    ELSE AddPaths(AddPath(acc, tracked, wt, Head(paths), walk), tracked, wt, Tail(paths), walk)

\* Mutant: the keys of the index are left out of the set.
AddTracked_headOnly(file, objs, ref) == Range(HeadTrackedLines(objs, ref))

\* The set add tests a path against: computed once, before any path is added.
AddTracked(file, objs, ref) ==
    DictKeys(read_index(file)) \cup Range(HeadTrackedLines(objs, ref))

Walks(wt) ==
    {w \in [1..Cardinality(AllFiles(wt)) -> AllFiles(wt)] : Range(w) = AllFiles(wt)}

cmd_add(files, walk) ==
    /\ ~HeadUnreadable(objects, headRef)
    /\ \E acc \in {AddPaths([index |-> read_index(indexFile), objs |-> objects, printed |-> <<>>],
                            AddTracked(indexFile, objects, headRef), worktree, files, walk)} :
           /\ indexFile' = Some(write_index(acc.index))
           /\ objects' = acc.objs
           /\ out' = Out("add", files, None, None, <<>>, "", acc.printed)
    /\ UNCHANGED <<worktree, headRef, made, codec>>

\* ------------------------------------------------------------------------
\* cmd_rm
\* ------------------------------------------------------------------------
\* Mutant: the entry is reported as removed and kept.
RmPath_noDelete(acc, relpath) ==
    IF relpath \in DictKeys(acc.index)
    THEN [index |-> acc.index, removed |-> TRUE,
          printed |-> Append(acc.printed, Line("Untracked", relpath, <<>>))]
    ELSE [acc EXCEPT !.printed = Append(acc.printed, Line("is not tracked.", relpath, <<>>))]

\* The loop over args.files: acc is [index, removed, printed].
RmPath(acc, relpath) ==
    IF relpath \in DictKeys(acc.index)
    THEN [index |-> DictDel(acc.index, relpath), removed |-> TRUE,
          printed |-> Append(acc.printed, Line("Untracked", relpath, <<>>))]
    ELSE [acc EXCEPT !.printed = Append(acc.printed, Line("is not tracked.", relpath, <<>>))]

\* Mutant: the loop stops at the first path that is not staged.
RECURSIVE RmPaths_abort(_, _)
RmPaths_abort(acc, paths) ==
    IF paths = <<>> THEN acc
    ELSE IF Head(paths) \notin DictKeys(acc.index) THEN RmPath(acc, Head(paths))
    ELSE RmPaths_abort(RmPath(acc, Head(paths)), Tail(paths))

RECURSIVE RmPaths(_, _)
RmPaths(acc, paths) ==
    IF paths = <<>> THEN acc ELSE RmPaths(RmPath(acc, Head(paths)), Tail(paths))

cmd_rm(files) ==
    /\ \E acc \in {RmPaths([index |-> read_index(indexFile), removed |-> FALSE, printed |-> <<>>],
                           files)} :
           /\ indexFile' = IF acc.removed THEN Some(write_index(acc.index)) ELSE indexFile
           /\ out' = Out("rm", files, None, None, <<>>, "", acc.printed)
    /\ UNCHANGED <<worktree, headRef, objects, made, codec>>

\* ------------------------------------------------------------------------
\* cmd_commit
\* ------------------------------------------------------------------------
\* Mutant: prev_tracked stays empty.
PrevTracked_none(lines, d) == d

\* prev_tracked: the parent's trailer paths, each with the value None.
RECURSIVE PrevTracked(_, _)
PrevTracked(lines, d) ==
    IF lines = <<>> THEN d ELSE PrevTracked(Tail(lines), DictSet(d, Head(lines), None))

\* new_tracked = dict(prev_tracked), then every index entry over it.
RECURSIVE MergeIndex(_, _)
MergeIndex(d, index) ==
    IF index = <<>> THEN d
    ELSE MergeIndex(DictSet(d, Head(index)[1], Some(Head(index)[2])), Tail(index))

\* Mutant: the parent's paths are not carried over.
NewTracked_indexOnly(prev_tracked, index) == MergeIndex(<<>>, index)

\* ... and the loop that drops the keys in neither the index nor prev_tracked.
NewTracked(prev_tracked, index) ==
    SelectSeq(MergeIndex(prev_tracked, index),
              LAMBDA e : ~(e[1] \notin DictKeys(index) /\ e[1] \notin DictKeys(prev_tracked)))

\* Mutant: the commit is never refused.
NothingToCommit_never(new_tracked) == FALSE

\* "if not new_tracked": the commit is refused.
NothingToCommit(new_tracked) == new_tracked = <<>>

\* Mutant: the entries are taken in the order of new_tracked.
TreeEntries_unsorted(new_tracked) ==
    LET entries(hashed) == [i \in DOMAIN hashed |-> <<S_mode, hashed[i][1], Val(hashed[i][2])>>]
    IN  entries(SelectSeq(new_tracked, LAMBDA e : ~IsNone(e[2])))

\* The entries of the tree: sorted by path, paths without a hash skipped.
TreeEntries(new_tracked) ==
    LET entries(hashed) ==
            [i \in DOMAIN hashed |-> <<S_mode, hashed[i], Val(DictGet(new_tracked, hashed[i]))>>]
    IN  entries(SelectSeq(SortedSeq(DictKeys(new_tracked)),
                          LAMBDA k : ~IsNone(DictGet(new_tracked, k))))

Author == User \o <<SP, 60>> \o User \o S_atHost

\* args.message or f"Commit at {datetime.now()}", then the trailer.
CommitMessage(message, now, new_tracked) ==
    (IF Truthy(message) THEN Val(message) ELSE S_commitAt \o now)
    \o S_trailer \o JoinLines(SortedSeq(DictKeys(new_tracked)))

\* The ref file's contents for a commit hash.
RefLine(commit_sha) == commit_sha \o <<LF>>

\* Mutant: the commit writes the index back as it read it.
IndexAfterCommit_keep(index) == index

\* write_index(repo, {}): the index a commit leaves.
IndexAfterCommit(index) == <<>>

\* What a commit that is not refused writes, in the order it writes it.
CommitPlan(file, objs, ref, message, now) ==
    LET written(parent, new_tracked, tw, cw) ==
            [refused |-> NothingToCommit(new_tracked),
             tree_sha |-> tw.sha, objsTree |-> tw.objs,
             commit_sha |-> cw.sha, objsCommit |-> cw.objs,
             parent |-> parent, tracked |-> SortedSeq(DictKeys(new_tracked))]
        commit(parent, new_tracked, tw) ==
            written(parent, new_tracked, tw,
                    ObjectWrite(tw.objs,
                                GitCommit_serialize(
                                    GitCommit(Some(tw.sha), parent, Some(Author),
                                              Some(CommitMessage(message, now, new_tracked)))),
                                S_commit))
        tree(parent, new_tracked) ==
            commit(parent, new_tracked,
                   ObjectWrite(objs, GitTree_serialize(TreeEntries(new_tracked)), S_treeFmt))
    IN  tree(HeadSha(ref),
             NewTracked(PrevTracked(HeadTrackedLines(objs, ref), <<>>), read_index(file)))

cmd_commit(message, now) ==
    /\ ~HeadUnreadable(objects, headRef)
    /\ \E plan \in {CommitPlan(indexFile, objects, headRef, message, now)} :
           /\ plan.refused \/ Len(made) < MaxCommits
           /\ IF plan.refused
              THEN /\ out' = Out("commit", <<>>, message, None, <<>>, "",
                                 <<Line("Nothing to commit.", <<>>, <<>>)>>)
                   /\ UNCHANGED <<indexFile, headRef, objects, made>>
              ELSE /\ objects' = plan.objsCommit
                   /\ headRef' = Some(RefLine(plan.commit_sha))
                   /\ indexFile' = Some(write_index(IndexAfterCommit(read_index(indexFile))))
                   /\ made' = Append(made, <<plan.commit_sha, plan.parent, plan.tracked>>)
                   /\ out' = Out("commit", <<>>, message, None, <<>>, "",
                                 <<Line("Committed as", plan.commit_sha, <<>>)>>)
    /\ UNCHANGED <<worktree, codec>>

\* ------------------------------------------------------------------------
\* cmd_status
\* ------------------------------------------------------------------------
Staged(file) == SortedSeq(DictKeys(read_index(file)))

\* Mutant: the head commit's tracked paths are not taken out.
Untracked_noTracked(wt, file, objs, ref) ==
    SortedSeq(AllFiles(wt) \ DictKeys(read_index(file)))

Untracked(wt, file, objs, ref) ==
    SortedSeq((AllFiles(wt) \ Range(HeadTrackedLines(objs, ref))) \ DictKeys(read_index(file)))

StatusLines(wt, file, objs, ref) ==
    LET lines(tag, paths) == [i \in DOMAIN paths |-> Line(tag, paths[i], <<>>)]
    IN  lines("staged", Staged(file)) \o lines("untracked", Untracked(wt, file, objs, ref))

cmd_status ==
    /\ ~HeadUnreadable(objects, headRef)
    /\ out' = Out("status", <<>>, None, None, <<>>, "",
                  StatusLines(worktree, indexFile, objects, headRef))
    /\ UNCHANGED <<worktree, indexFile, headRef, objects, made, codec>>

\* ------------------------------------------------------------------------
\* cmd_log
\* ------------------------------------------------------------------------
\* The while loop: sha is None or Some(hash).  err is "AttributeError" when
\* the object read is no commit (the loop prints its hash, then fails), and
\* "loop" when object_read does not return (the walk then prints no more).
RECURSIVE LogLoop(_, _, _, _)
LogLoop(objs, sha, seen, printed) ==
    IF ~Truthy(sha) \/ Val(sha) \in seen THEN [printed |-> printed, err |-> ""]
    ELSE LET show(commit) ==
                 LogLoop(objs, commit.parent, seen \cup {Val(sha)},
                         printed \o <<Line("commit", Val(sha), <<>>),
                                      Line("Author:", Fmt(commit.author), <<>>),
                                      Line("Message:", Fmt(commit.message), <<>>)>>)
             visit(r) ==
                 IF r.err = "loop" THEN [printed |-> printed, err |-> "loop"]
                 ELSE IF r.err # ""
                     THEN [printed |-> Append(printed, Line("Broken commit", Val(sha), <<>>)),
                           err |-> ""]
                 ELSE IF r.kind # S_commit
                     THEN [printed |-> Append(printed, Line("commit", Val(sha), <<>>)),
                           err |-> "AttributeError"]
                 ELSE show(GitCommit_deserialize(r.data))
         IN  visit(ObjectRead(objs, Val(sha)))

\* args.sha if given, else the stripped contents of the ref file.
Log(objs, ref, sha) ==
    IF Truthy(sha) THEN LogLoop(objs, sha, {}, <<>>)
    ELSE IF ~IsNone(ref) THEN LogLoop(objs, Some(Strip(Val(ref))), {}, <<>>)
    ELSE [printed |-> <<Line("No commits found.", <<>>, <<>>)>>, err |-> ""]

\* The hash a user passes: that of the head commit, or one that names no
\* object while there is no head commit.
ShaArgs == IF IsNone(HeadSha(headRef)) THEN {MissingSha} ELSE {Val(HeadSha(headRef))}

cmd_log(sha) ==
    /\ \E r \in {Log(objects, headRef, sha)} :
           out' = Out("log", <<>>, None, sha, <<>>, r.err, r.printed)
    /\ UNCHANGED <<worktree, indexFile, headRef, objects, made, codec>>

\* ------------------------------------------------------------------------
\* cmd_hash_object, cmd_cat_file, cmd_ls_objects, cmd_init
\* ------------------------------------------------------------------------
cmd_hash_object(file) ==
    /\ IF IsFile(worktree, file)
       THEN \E w \in {ObjectWrite(objects, GitBlob_serialize(Val(worktree[file])), S_blob)} :
                /\ objects' = w.objs
                /\ out' = Out("hash-object", <<file>>, None, None, <<>>, "",
                              <<Line("sha", w.sha, <<>>)>>)
       ELSE /\ objects' = objects
            /\ out' = Out("hash-object", <<file>>, None, None, <<>>, "FileNotFoundError", <<>>)
    /\ UNCHANGED <<worktree, indexFile, headRef, made, codec>>

\* What cat-file prints for the object read, or the exception: that of the
\* read, or that of printing the object as typ.
CatFile(typ, r) ==
    LET decoded(text) ==
            IF \E i \in 1..Len(text) : text[i] >= 128
            THEN [err |-> "UnicodeDecodeError", printed |-> <<>>]
            ELSE [err |-> "", printed |-> <<Line("out", text, <<>>)>>]
    IN  IF r.err # "" THEN [err |-> r.err, printed |-> <<>>]
        ELSE IF typ = S_blob
        THEN (IF r.kind = S_blob THEN [err |-> "", printed |-> <<Line("out", r.data, <<>>)>>]
              ELSE [err |-> "AttributeError", printed |-> <<>>])
        ELSE decoded(IF r.kind = S_blob THEN GitBlob_serialize(GitBlob_deserialize(r.data))
                     ELSE IF r.kind = S_commit
                          THEN GitCommit_serialize(GitCommit_deserialize(r.data))
                     ELSE GitTree_serialize(GitTree_deserialize(r.data).entries))

cmd_cat_file(typ, sha) ==
    /\ \E c \in {CatFile(typ, ObjectRead(objects, sha))} :
           out' = Out("cat-file", <<>>, None, Some(sha), typ, c.err, c.printed)
    /\ UNCHANGED <<worktree, indexFile, headRef, objects, made, codec>>

\* One line per object, in the sorted order of the two listdir calls.
LsObjects(objs) ==
    LET line(sha, r) == IF r.err # "" THEN Line("unreadable", sha, <<>>)
                        ELSE Line("object", sha, r.kind)
        lines(shas) == [i \in DOMAIN shas |-> line(shas[i], ObjectRead(objs, shas[i]))]
    IN  lines(SortedSeq({q[1] \o q[2] : q \in DOMAIN objs}))

cmd_ls_objects ==
    /\ out' = Out("ls-objects", <<>>, None, None, <<>>, "", LsObjects(objects))
    /\ UNCHANGED <<worktree, indexFile, headRef, objects, made, codec>>

\* Mutant: init removes the branch's ref file.
repo_create_reset(ref) == None

\* repo_create on a repository that exists: the directories are there
\* (exist_ok) and HEAD is rewritten with the same line; refs/heads/master,
\* the index and the objects are not touched.
repo_create(ref) == ref

cmd_init ==
    /\ headRef' = repo_create(headRef)
    /\ out' = Out("init", <<>>, None, None, <<>>, "", <<Line("Initialized", <<>>, <<>>)>>)
    /\ UNCHANGED <<worktree, indexFile, objects, made, codec>>

\* ------------------------------------------------------------------------
\* The user edits or creates a file of the work tree
\* ------------------------------------------------------------------------
WriteFile(p, c) ==
    /\ worktree[p] # Some(c)
    /\ worktree' = [worktree EXCEPT ![p] = Some(c)]
    /\ out' = Out("edit", <<p>>, None, None, <<>>, "", <<>>)
    /\ UNCHANGED <<indexFile, headRef, objects, made, codec>>

\* ------------------------------------------------------------------------
\* Specification: the commands run one after another on a repository that
\* init has just created
\* ------------------------------------------------------------------------
Init ==
    /\ worktree = [p \in Paths |-> IF p = PathA THEN Some(<<120>>) ELSE None]
    /\ indexFile = None
    /\ headRef = None
    /\ objects = <<>>
    /\ out = Out("init", <<>>, None, None, <<>>, "", <<Line("Initialized", <<>>, <<>>)>>)
    /\ made = <<>>
    /\ codec = <<>>

Next ==
    \/ \E files \in AddArgs :
          \E walk \in (IF Dot \in Range(files) THEN Walks(worktree) ELSE {<<>>}) :
             cmd_add(files, walk)
    \/ \E files \in RmArgs : cmd_rm(files)
    \/ \E message \in Messages, now \in Timestamps : cmd_commit(message, now)
    \/ cmd_status
    \/ \E sha \in {None} \cup {Some(h) : h \in ShaArgs} : cmd_log(sha)
    \/ \E file \in {PathB} : cmd_hash_object(file)
    \/ \E typ \in {S_blob, S_commit}, sha \in ShaArgs : cmd_cat_file(typ, sha)
    \/ cmd_ls_objects
    \/ cmd_init
    \/ \E e \in Edits : WriteFile(e[1], e[2])

Spec == Init /\ [][Next]_vars

\* ------------------------------------------------------------------------
\* Serializer specification: a commit value is serialized and read back
\* ------------------------------------------------------------------------
MsgChars == {109, LF, CR, SP}         \* "m", "\n", "\r", " "
RECURSIVE Strings(_)
Strings(n) ==
    IF n = 0 THEN {<<>>}
    ELSE Strings(n - 1) \cup {Append(t, c) : t \in {u \in Strings(n - 1) : Len(u) = n - 1},
                                             c \in MsgChars}

CommitValues ==
    {GitCommit(Some(MissingSha), parent, Some(author), Some(message)) :
        parent \in {None, Some(MissingSha)},
        author \in {Author, <<>>},
        message \in Strings(MaxMsgLen)}

InitCodec ==
    /\ worktree = [p \in Paths |-> None]
    /\ indexFile = None
    /\ headRef = None
    /\ objects = <<>>
    /\ out = Out("init", <<>>, None, None, <<>>, "", <<>>)
    /\ made = <<>>
    /\ codec \in {<<x>> : x \in CommitValues}

CommitRoundTrip ==
    /\ Len(codec) = 1
    /\ codec' = Append(codec, GitCommit_deserialize(GitCommit_serialize(codec[1])))
    /\ UNCHANGED <<worktree, indexFile, headRef, objects, out, made>>

NextCodec == CommitRoundTrip

SpecCodec == InitCodec /\ [][NextCodec]_vars

\* ------------------------------------------------------------------------
\* Walk specification: log runs on a store with any objects in it, from
\* any hash
\* ------------------------------------------------------------------------
ShaAa1 == <<97, 97, 49>>              \* "aa1"
ShaAa2 == <<97, 97, 50>>              \* "aa2"
ShaAb == <<97, 98>>                   \* "ab": no file name after the directory
WalkShas == {ShaAa1, ShaAa2, ShaAb}

\* A tree payload without a NUL byte, longer than twenty bytes, with a
\* space in its first header and one after byte twenty.
TreeNoNul == [i \in 1..(ShaRawLen + 4) |-> IF i \in {7, ShaRawLen + 2} THEN SP ELSE 109]

\* The bytes an object file may hold: a commit with any parent, a blob, a
\* tree, a tree without a NUL byte, an unknown type, and bytes that do not
\* decompress.
WalkFiles ==
    {Compress(Frame(S_commit, GitCommit_serialize(
                 GitCommit(Some(MissingSha), parent, Some(Author), Some(<<109>>)))))
        : parent \in {None} \cup {Some(h) : h \in WalkShas}}
    \cup {Compress(Frame(S_blob, GitBlob_serialize(<<120>>))),
          Compress(Frame(S_treeFmt, <<>>)),
          Compress(Frame(S_treeFmt, TreeNoNul)),
          Compress(Frame(S_mode, <<>>)),
          <<>>}

WalkStores ==
    UNION {[ps -> WalkFiles] : ps \in SUBSET {ObjPath(ShaAa1), ObjPath(ShaAa2)}}

InitWalk ==
    /\ worktree = [p \in Paths |-> None]
    /\ indexFile = None
    /\ headRef \in {None, Some(RefLine(ShaAa1))}
    /\ objects \in WalkStores
    /\ out = Out("init", <<>>, None, None, <<>>, "", <<>>)
    /\ made = <<>>
    /\ codec = <<>>

NextWalk == \E sha \in {None} \cup {Some(h) : h \in WalkShas} : cmd_log(sha)

SpecWalk == InitWalk /\ [][NextWalk]_vars

\* ------------------------------------------------------------------------
\* Tree specification: GitTree.deserialize is applied to a payload
\* ------------------------------------------------------------------------
MaxEntries == 2
\* k hash bytes, each 7.
HashTail(k) == [i \in 1..k |-> 7]
GoodEntry == S_mode \o <<SP>> \o PathA \o <<NUL>> \o HashTail(ShaRawLen)

RECURSIVE GoodEntries(_)
GoodEntries(n) == IF n = 0 THEN <<>> ELSE GoodEntry \o GoodEntries(n - 1)

\* Headers: "100644 a", "a", " " and the empty one.
TreeHeaders == {S_mode \o <<SP>> \o PathA, PathA, <<SP>>, <<>>}

\* What follows a header: nothing, or a NUL byte and k bytes.
TreeAfter ==
    {<<>>} \cup {<<NUL>> \o HashTail(k) : k \in {0, 1, ShaRawLen - 1, ShaRawLen, ShaRawLen + 1}}

\* Payloads: whole entries, then one header and what follows it.
TreePayloads ==
    {GoodEntries(n) \o h \o t : n \in 0..MaxEntries, h \in TreeHeaders, t \in TreeAfter}
    \cup {GoodEntries(MaxEntries) \o <<SP>> \o HashTail(ShaRawLen) \o <<SP, 109>>}

InitTree ==
    /\ worktree = [p \in Paths |-> None]
    /\ indexFile = None
    /\ headRef = None
    /\ objects = <<>>
    /\ out = Out("init", <<>>, None, None, <<>>, "", <<>>)
    /\ made = <<>>
    /\ codec \in {<<data>> : data \in TreePayloads}

TreeRead ==
    /\ Len(codec) = 1
    /\ codec' = Append(codec, GitTree_deserialize(codec[1]))
    /\ UNCHANGED <<worktree, indexFile, headRef, objects, out, made>>

NextTree == TreeRead

SpecTree == InitTree /\ [][NextTree]_vars

\* ------------------------------------------------------------------------
\* Stop specification: the process may stop in the middle of a commit
\* ------------------------------------------------------------------------
\* Where a commit that is not refused may stop: after one of its writes, or
\* in the middle of one (the file is opened for writing, which creates or
\* truncates it, and the process stops before the bytes reach it).
StopPoints ==
    {"tree torn", "tree written", "commit torn", "commit written", "ref torn", "ref written"}

\* What is left of an object file whose write did not finish: no byte, or a
\* first byte; neither decompresses.
TornBytes == {<<>>, <<120>>}

\* The object files that hold torn bytes.
Torn(objs) == {q \in DOMAIN objs : objs[q] \in TornBytes}

\* object_write stopped between open and the end of the write: the file is
\* created when it did not exist, and holds torn bytes.
TornWrite(objs, sha, torn) ==
    LET put(obj_path) ==
            IF obj_path \in DOMAIN objs THEN objs
            ELSE [q \in DOMAIN objs \cup {obj_path} |-> IF q = obj_path THEN torn ELSE objs[q]]
    IN  put(ObjPath(sha))

\* The object store a commit leaves when it stops at a stop point.
ObjectsAt(at, plan, objs, torn) ==
    IF at = "tree torn" THEN TornWrite(objs, plan.tree_sha, torn)
    ELSE IF at = "tree written" THEN plan.objsTree
    ELSE IF at = "commit torn" THEN TornWrite(plan.objsTree, plan.commit_sha, torn)
    ELSE plan.objsCommit

\* Mutant: the ref is advanced before the commit object is written.
RefAt_early(at, plan, ref) ==
    IF at \in {"commit torn", "commit written", "ref written"}
    THEN Some(RefLine(plan.commit_sha))
    ELSE IF at = "ref torn" THEN Some(<<>>)
    ELSE ref

\* The ref file a commit leaves when it stops at a stop point.
RefAt(at, plan, ref) ==
    IF at = "ref torn" THEN Some(<<>>)
    ELSE IF at = "ref written" THEN Some(RefLine(plan.commit_sha))
    ELSE ref

\* A commit that stops at a stop point; the index has not been cleared yet.
cmd_commit_stopped(message, now, at, torn) ==
    /\ ~HeadUnreadable(objects, headRef)
    /\ Len(made) < MaxCommits
    /\ \E plan \in {CommitPlan(indexFile, objects, headRef, message, now)} :
           /\ ~plan.refused
           /\ objects' = ObjectsAt(at, plan, objects, torn)
           /\ Cardinality(Torn(objects')) <= MaxTorn
           /\ headRef' = RefAt(at, plan, headRef)
           /\ made' = IF at = "ref written"
                      THEN Append(made, <<plan.commit_sha, plan.parent, plan.tracked>>)
                      ELSE made
           /\ out' = Out("commit stopped", <<>>, message, Some(plan.commit_sha),
                         plan.tree_sha, at, <<>>)
    /\ UNCHANGED <<worktree, indexFile, codec>>

NextStop ==
    \/ cmd_add(<<PathA>>, <<>>)
    \/ \E message \in Messages, now \in Timestamps : cmd_commit(message, now)
    \/ \E message \in Messages, now \in Timestamps, at \in StopPoints, torn \in TornBytes :
          cmd_commit_stopped(message, now, at, torn)

SpecStop == Init /\ [][NextStop]_vars

\* ------------------------------------------------------------------------
\* Properties
\* ------------------------------------------------------------------------
Committed(o) == o.cmd = "commit" /\ o.printed # <<>> /\ o.printed[1][1] = "Committed as"
Refused(o) == o.cmd = "commit" /\ o.printed = <<Line("Nothing to commit.", <<>>, <<>>)>>

\* The entries of the tree of the commit the ref names.
HeadTreeSha(objs, ref) == Val(ReadCommit(objs, Val(HeadSha(ref))).tree)
HeadTreeEntries(objs, ref) ==
    GitTree_deserialize(ObjectRead(objs, HeadTreeSha(objs, ref)).data).entries

\* The hash of the blob holding the contents of file p.
BlobShaOf(wt, p) == Sha1Hex(Frame(S_blob, Val(wt[p])))

\* C1: after add f, commit, add f again with f unchanged, and a second
\* commit, the second commit's tree has the entries (and so the hash) of the
\* first commit's tree.  Stated on the second commit's step: one commit
\* made, its tree holding f alone with the hash of f's present contents,
\* add f the last command, nothing but f staged.
C1_SecondTreeSame ==
    [][\A f \in Paths :
          (/\ out.cmd = "add" /\ out.paths = <<f>>
           /\ IsFile(worktree, f)
           /\ Len(made) = 1
           /\ HeadTreeEntries(objects, headRef) = <<<<S_mode, f, BlobShaOf(worktree, f)>>>>
           /\ DictKeys(read_index(indexFile)) \subseteq {f}
           /\ Committed(out'))
          => /\ HeadTreeEntries(objects', headRef') = HeadTreeEntries(objects, headRef)
             /\ HeadTreeSha(objects', headRef') = HeadTreeSha(objects, headRef)]_vars

\* C2: a commit whose set of tree entries with a resolved hash is empty is
\* refused: it reports nothing to commit, writes no object, and leaves the
\* head ref and the index as they were.
C2_NoEntriesRefused ==
    [][(/\ out'.cmd = "commit"
        /\ TreeEntries(NewTracked(PrevTracked(HeadTrackedLines(objects, headRef), <<>>),
                                  read_index(indexFile))) = <<>>)
       => /\ Refused(out')
          /\ objects' = objects
          /\ headRef' = headRef
          /\ indexFile' = indexFile]_vars

\* C3: a commit with an empty staging index and no head commit (or a head
\* commit that records no tracked path) is refused: the head ref, the
\* object store and the index stay as they were.
C3_EmptyCommitRefused ==
    [][(/\ out'.cmd = "commit"
        /\ read_index(indexFile) = <<>>
        /\ HeadTrackedLines(objects, headRef) = <<>>)
       => /\ Refused(out')
          /\ headRef' = headRef
          /\ objects' = objects
          /\ indexFile' = indexFile]_vars

C3_Witness ==
    /\ Refused(out)
    /\ IsNone(headRef)
    /\ out.indexBefore = <<>>
    /\ objects # <<>>

\* The hashes log printed as commits, in the order printed.
CommitsPrinted(printed) ==
    LET lines == SelectSeq(printed, LAMBDA l : l[1] = "commit")
    IN  [i \in DOMAIN lines |-> lines[i][2]]

\* C4: log from the head visits exactly the commits that were made, newest
\* first; each of them has as parent the head that was current when it was
\* made, and the walk ends at the first commit, which has no parent.
C4_LogVisitsChain ==
    (out.cmd = "log" /\ IsNone(out.sha))
    => LET visited == CommitsPrinted(out.printed)
           n == Len(made)
       IN  /\ out.err = ""
           /\ Len(visited) = n
           /\ \A i \in 1..n : visited[i] = made[n + 1 - i][1]
           /\ \A i \in 1..n : ReadCommit(objects, made[i][1]).parent = made[i][2]
           /\ \A i \in 2..n : made[i][2] = Some(made[i - 1][1])
           /\ n > 0 => IsNone(ReadCommit(objects, visited[n]).parent)

C4_Witness ==
    /\ out.cmd = "log" /\ IsNone(out.sha)
    /\ Len(made) = MaxCommits
    /\ Len(CommitsPrinted(out.printed)) = MaxCommits

\* C5: deserialize(serialize(x)) has the tree, parent, author and message
\* of x, for every commit value x.
C5_CommitRoundTrip == Len(codec) = 2 => codec[2] = codec[1]

\* C6: add of a path that is already tracked (staged, or listed in the head
\* commit's trailer) leaves the staging index as it was.
C6_AddTrackedNoop ==
    [][(/\ out'.cmd = "add"
        /\ \A i \in DOMAIN out'.paths :
              out'.paths[i] \in DictKeys(read_index(indexFile))
                                \cup Range(HeadTrackedLines(objects, headRef)))
       => read_index(indexFile') = read_index(indexFile)]_vars

C6_Witness ==
    /\ out.cmd = "add" /\ out.paths = <<PathA>> /\ out.printed = <<>>
    /\ IsFile(worktree, PathA)
    /\ PathA \in DictKeys(out.indexBefore)
    /\ DictGet(out.indexBefore, PathA) # BlobShaOf(worktree, PathA)

\* C7: the head ref changes in a commit that is not refused, which sets it
\* to the hash of the commit object it has just written, and in no other
\* command.
C7_HeadOnlyByCommit ==
    [][/\ headRef' # headRef
          => /\ Committed(out')
             /\ headRef' = Some(RefLine(out'.printed[1][2]))
             /\ ObjPath(out'.printed[1][2]) \in DOMAIN objects' \ DOMAIN objects
             /\ ObjectRead(objects', out'.printed[1][2]).kind = S_commit
       /\ Committed(out') => headRef' # headRef]_vars

C7_Witness ==
    /\ Committed(out)
    /\ Len(made) = 2
    /\ headRef = Some(RefLine(made[2][1]))
    /\ made[2][2] = Some(made[1][1])

\* C8: the object store only grows: a stored object keeps its bytes and is
\* never removed, and writing the type and payload of a stored object again
\* returns its hash and leaves the store as it is.
StoreSound(objs) ==
    \A q \in DOMAIN objs :
        LET r == ObjectRead(objs, q[1] \o q[2])
            w == ObjectWrite(objs, r.data, r.kind)
        IN  r.err = "" /\ w.sha = q[1] \o q[2] /\ w.objs = objs

C8_StoreAppendOnly ==
    [][/\ \A q \in DOMAIN objects : q \in DOMAIN objects' /\ objects'[q] = objects[q]
       /\ objects' # objects => StoreSound(objects')]_vars

C8_Witness ==
    /\ out.cmd = "hash-object" /\ out.err = ""
    /\ PathB \in DictKeys(out.indexBefore)
    /\ out.printed[1][2] = DictGet(out.indexBefore, PathB)
    /\ Cardinality(DOMAIN objects) >= 2

\* C9: after a commit that is not refused the index file exists and holds
\* no entry.
C9_IndexEmptyAfterCommit ==
    Committed(out) => indexFile = Some(<<>>) /\ read_index(indexFile) = <<>>

C9_Witness ==
    /\ Committed(out)
    /\ Len(out.indexBefore) = 2
    /\ indexFile = Some(<<>>)

\* C10: add of p and then rm of p, p being a file of the work tree that was
\* neither staged nor listed in the head commit's trailer, gives the
\* staging index its value from before the add, and status then reports p
\* as untracked and not as staged.
C10_AddThenRm ==
    [][\A p \in Paths :
          (/\ out.cmd = "add" /\ out.paths = <<p>>
           /\ IsFile(worktree, p)
           /\ p \notin DictKeys(out.indexBefore)
           /\ p \notin Range(HeadTrackedLines(objects, headRef))
           /\ out'.cmd = "rm" /\ out'.paths = <<p>>)
          => /\ read_index(indexFile') = out.indexBefore
             /\ LET status == StatusLines(worktree', indexFile', objects', headRef')
                IN  /\ \E i \in DOMAIN status : status[i] = Line("untracked", p, <<>>)
                    /\ \A i \in DOMAIN status : status[i] # Line("staged", p, <<>>)]_vars

C10_Witness ==
    /\ out.cmd = "rm" /\ out.paths = <<PathB>>
    /\ out.printed = <<Line("Untracked", PathB, <<>>)>>
    /\ Len(out.indexBefore) = 2 /\ out.indexBefore[2][1] = PathB
    /\ read_index(indexFile) = <<out.indexBefore[1]>>
    /\ IsFile(worktree, PathB)
    /\ IsNone(headRef)

\* The paths status printed under a heading.
Reported(o, tag) == {o.printed[i][2] : i \in {j \in DOMAIN o.printed : o.printed[j][1] = tag}}

\* The paths the head commit wrote to its trailer (none without a commit).
HeadRecorded == IF made = <<>> THEN {} ELSE Range(made[Len(made)][3])

C12_RmEveryPath ==
    [][out'.cmd = "rm"
       => /\ read_index(indexFile')
               = SelectSeq(read_index(indexFile), LAMBDA e : e[1] \notin Range(out'.paths))
          /\ Len(out'.printed) = Len(out'.paths)
          /\ \A i \in DOMAIN out'.paths :
                out'.printed[i]
                  = IF out'.paths[i] \in DictKeys(read_index(indexFile))
                    THEN Line("Untracked", out'.paths[i], <<>>)
                    ELSE Line("is not tracked.", out'.paths[i], <<>>)
          /\ headRef' = headRef /\ objects' = objects
          /\ (Range(out'.paths) \cap DictKeys(read_index(indexFile)) = {}
                => indexFile' = indexFile)]_vars

C12_Witness ==
    /\ out.cmd = "rm" /\ out.paths = <<PathA, PathB>>
    /\ out.printed = <<Line("is not tracked.", PathA, <<>>), Line("Untracked", PathB, <<>>)>>
    /\ DictKeys(out.indexBefore) = {PathB}
    /\ indexFile = Some(<<>>)

\* C13: the tree a commit writes lists its entries in ascending order of
\* path, whatever the order in which the paths were staged.
C13_TreeSorted ==
    Committed(out)
    => \A i \in 1..(Len(HeadTreeEntries(objects, headRef)) - 1) :
          StrLess(HeadTreeEntries(objects, headRef)[i][2],
                  HeadTreeEntries(objects, headRef)[i + 1][2])

C13_Witness ==
    /\ Committed(out)
    /\ Len(out.indexBefore) = 2
    /\ out.indexBefore[1][1] = PathB /\ out.indexBefore[2][1] = PathA
    /\ Len(HeadTreeEntries(objects, headRef)) = 2
    /\ HeadTreeEntries(objects, headRef)[1][2] = PathA

\* s ends with t.
EndsWith(s, t) == Len(s) >= Len(t) /\ SubSeq(s, Len(s) - Len(t) + 1, Len(s)) = t

\* The message of the commit the ref names, as stored.
HeadMessage(objs, ref) == Fmt(ReadCommit(objs, Val(HeadSha(ref))).message)

\* C14: a commit that is not refused, made with the staging index S on a
\* head commit whose trailer lists the paths P, writes a tree whose entries
\* are exactly (100644, p, S[p]) for the keys p of S: a path of P that is
\* not in S has no entry.  The trailer of the new commit's message lists
\* every path of P and of S.
C14_TreeFromIndex ==
    [][Committed(out')
       => /\ Range(HeadTreeEntries(objects', headRef'))
               = {<<S_mode, e[1], e[2]>> : e \in Range(read_index(indexFile))}
          /\ \A p \in HeadRecorded \ DictKeys(read_index(indexFile)) :
                \A e \in Range(HeadTreeEntries(objects', headRef')) : e[2] # p
          /\ (HeadRecorded \cup DictKeys(read_index(indexFile))) \subseteq HeadRecorded'
          /\ EndsWith(HeadMessage(objects', headRef'),
                      S_trailer \o JoinLines(made'[Len(made')][3]))]_vars

C14_Witness ==
    /\ Committed(out)
    /\ Len(made) = 2
    /\ made[1][3] = <<PathA>>
    /\ DictKeys(out.indexBefore) = {PathB}
    /\ made[2][3] = <<PathA, PathB>>
    /\ Len(HeadTreeEntries(objects, headRef)) = 1
    /\ HeadTreeEntries(objects, headRef)[1][2] = PathB

\* The commits a history walk from the head visits.
WalkFromHead(objs, ref) == Range(CommitsPrinted(Log(objs, ref, None).printed))

\* C15: a commit writes its tree, then its commit object, then the head
\* ref, and clears the index last.  A commit that stops after it wrote the
\* commit object and before it advanced the ref leaves the head ref as it
\* was, the commit object in the store (readable as a commit when this
\* commit wrote it), and a history walk from the head does not visit it.
C15_StopBeforeRef ==
    [][out'.cmd = "commit stopped"
       => /\ indexFile' = indexFile
          /\ out'.err \in {"tree torn", "tree written", "commit torn", "commit written"}
                => headRef' = headRef
          /\ out'.err \in {"tree torn", "tree written"}
                => DOMAIN objects' \ DOMAIN objects \subseteq {ObjPath(out'.typ)}
          /\ out'.err # "tree torn" => ObjPath(out'.typ) \in DOMAIN objects'
          /\ out'.err \in {"ref torn", "ref written"}
                => ObjPath(Val(out'.sha)) \in DOMAIN objects'
          /\ out'.err = "commit written"
                => /\ ObjPath(Val(out'.sha)) \in DOMAIN objects'
                   /\ ObjPath(Val(out'.sha)) \notin DOMAIN objects
                         => ObjectRead(objects', Val(out'.sha)).kind = S_commit
                   /\ Val(out'.sha) \notin WalkFromHead(objects', headRef')]_vars

C15_Witness ==
    /\ out.cmd = "commit stopped" /\ out.err = "commit written"
    /\ Len(made) = 1
    /\ headRef = Some(RefLine(made[1][1]))
    /\ ObjectRead(objects, Val(out.sha)).kind = S_commit
    /\ ReadCommit(objects, Val(out.sha)).parent = Some(made[1][1])
    /\ WalkFromHead(objects, headRef) = {made[1][1]}

\* The head ref names a commit object of the store whose tree is a tree
\* object of the store and whose parent, if it has one, is a commit object
\* of the store.
HeadSound(objs, ref) ==
    LET sound(commit) ==
            /\ ~IsNone(commit.tree)
            /\ ObjectRead(objs, Val(commit.tree)).kind = S_treeFmt
            /\ Truthy(commit.parent) => ObjectRead(objs, Val(commit.parent)).kind = S_commit
        named(head) ==
            /\ ObjectRead(objs, head).kind = S_commit
            /\ sound(ReadCommit(objs, head))
    IN  IsNone(HeadSha(ref)) \/ named(Val(HeadSha(ref)))

\* C16: in every state, those a commit leaves when it stops part-way
\* included, the head ref is absent (or empty) or names a commit object of
\* the store whose tree is a tree object of the store and whose parent, if
\* it has one, is a commit object of the store.
C16_HeadSound == HeadSound(objects, headRef)

\* C17: after a commit that is not refused, whatever the message the user
\* gave, the tracked paths that add, status and the next commit read back
\* from the head commit's message are exactly the paths the commit wrote to
\* its trailer.
C17_TrailerReadBack ==
    Committed(out) => Range(HeadTrackedLines(objects, headRef)) = HeadRecorded

\* C18: the tracked paths only grow: no command takes a path out of the
\* paths read from the head commit's trailer, every commit's trailer holds
\* the paths read from the trailer of the commit made before it, and rm of a
\* path that is committed and not staged reports it as not tracked.
C18_TrackedGrows ==
    [][/\ Range(HeadTrackedLines(objects, headRef))
            \subseteq Range(HeadTrackedLines(objects', headRef'))
       /\ \A i \in 1..(Len(made') - 1) :
             Range(HeadTrackedLines(objects', Some(RefLine(made'[i][1]))))
                \subseteq Range(HeadTrackedLines(objects', Some(RefLine(made'[i + 1][1]))))
       /\ out'.cmd = "rm"
            => \A i \in DOMAIN out'.paths :
                  (/\ out'.paths[i] \in Range(HeadTrackedLines(objects, headRef))
                   /\ out'.paths[i] \notin DictKeys(read_index(indexFile)))
                  => out'.printed[i] = Line("is not tracked.", out'.paths[i], <<>>)]_vars

C18_Witness ==
    /\ out.cmd = "rm" /\ out.paths = <<PathA>>
    /\ out.printed = <<Line("is not tracked.", PathA, <<>>)>>
    /\ Len(made) = 2
    /\ made[1][3] = <<PathA>>
    /\ made[2][3] = <<PathA, PathB>>
    /\ Range(HeadTrackedLines(objects, headRef)) = {PathA, PathB}

\* C19: the walk of log comes to an end by itself on every store and from
\* every hash: no commit is printed twice, each hash printed as a commit is
\* a commit of the store and the parent of the one printed before it, a
\* failure line is the last line, and without one the last commit printed
\* has no parent or a parent printed before.
C19_WalkEnds ==
    out.cmd = "log" =>
       \E cs \in {CommitsPrinted(out.printed)} :
          /\ out.err = ""
          /\ \A i, j \in DOMAIN cs : cs[i] = cs[j] => i = j
          /\ \A i \in DOMAIN cs :
                /\ ObjectRead(objects, cs[i]).err = ""
                /\ ObjectRead(objects, cs[i]).kind = S_commit
                /\ i > 1 => ReadCommit(objects, cs[i - 1]).parent = Some(cs[i])
          /\ \A i \in DOMAIN out.printed :
                out.printed[i][1] = "Broken commit" => i = Len(out.printed)
          /\ (cs # <<>> /\ \A i \in DOMAIN out.printed : out.printed[i][1] # "Broken commit")
                => \/ ~Truthy(ReadCommit(objects, cs[Len(cs)]).parent)
                   \/ Val(ReadCommit(objects, cs[Len(cs)]).parent) \in Range(cs)

\* The payload is a concatenation of entries: a header with a space in it,
\* one NUL byte, then twenty hash bytes.
RECURSIVE WellFormedTree(_)
WellFormedTree(data) ==
    \/ data = <<>>
    \/ LET entry(j) ==
               /\ j >= 0
               /\ PyFind(PySlice(data, 0, j), <<SP>>, 0) >= 0
               /\ Len(data) >= j + 1 + ShaRawLen
               /\ WellFormedTree(PySlice(data, j + 1 + ShaRawLen, Len(data)))
       IN  entry(PyFind(data, <<NUL>>, 0))

\* C20: GitTree.deserialize returns a tree only for a payload that is a
\* concatenation of entries with a header, a NUL byte and twenty hash bytes;
\* on every other payload it fails.
C20_MalformedTreeFails ==
    (Len(codec) = 2 /\ ~WellFormedTree(codec[1])) => codec[2].err \notin {"", "loop"}

====
